---- MODULE Spec2Model ----
(***************************************************************************)
(* Model of github.com/next-trace/scg-error, package error: the *Error     *)
(* value, its constructors (New, Wrap, E, Ensure), its accessors and its   *)
(* context-enrichment helpers, over an explicit heap of Go maps and of     *)
(* error values, so that aliasing, identity and nil receivers are visible. *)
(***************************************************************************)
EXTENDS Integers, Sequences, FiniteSets, TLC

\* ------------------------------------------------------------------ bounds
MaxMaps == 6        \* map[string]any objects ever allocated
MaxErrs == 2        \* *Error objects ever allocated
MaxFrgn == 1        \* errors of a foreign type ever allocated
MaxMuts == 1        \* assignments and deletes a caller makes on maps it holds
MaxWrites == 1      \* WithContextKV and WithContextMap calls a caller makes
MaxOpts == 2        \* options a caller passes to one E call
MaxThr == 2         \* threads that share one Error

\* ------------------------------------------------------------ Go values
Keys == {"a", "b"}
Ints == {1, 2}

defaultHTTPStatus == 500

NilMap == 0         \* the nil map[string]any
NilPtr == 0         \* the nil *Error

\* A value of type any held in a context map: an int, or a map[string]any
\* reference (possibly the nil map).
IntV(i) == [k |-> "int", v |-> i]
MapV(a) == [k |-> "map", v |-> a]

\* A value of interface type error: nil, a *Error (p may be NilPtr: a typed
\* nil), or a pointer to an error of a foreign type.
NilErr == [t |-> "nil", p |-> 0]
ErrPtr(p) == [t |-> "Error", p |-> p]
FrgnPtr(p) == [t |-> "foreign", p |-> p]

\* The attribute tuples callers construct errors with.  The first and the
\* third differ in detail only.
F1 == [httpStatus |-> 404, code |-> "c1", key |-> "k1", detail |-> "d1"]
F2 == [httpStatus |-> 500, code |-> "c2", key |-> "k2", detail |-> "d2"]
F3 == [httpStatus |-> 404, code |-> "c1", key |-> "k1", detail |-> "d3"]
Fields == {F1, F2, F3}

VARIABLES
    maps,       \* heap of map[string]any objects: address -> (key -> value)
    errs,       \* heap of Error structs: address -> fields
    frgn,       \* heap of foreign errors: address -> [msg, wraps]
    held,       \* map addresses the caller has a reference to
    given,      \* <<e, a>>: map a was (in) the context a constructor of e got
    returned,   \* <<e, a>>: map a was (in) a result of e.Context()
    written,    \* <<e, a>>: map a was (in) an argument of e.WithContextKV/Map
    muts,       \* how many assignments and deletes the caller has made
    writes,     \* how many WithContextKV and WithContextMap calls were made
    eopts,      \* the option list of the last E call
    thr,        \* per thread: the call it is in, its position and its locals
    race,       \* the conflicting unordered accesses made so far
    ret         \* the last call and its outcome

vars == <<maps, errs, frgn, held, given, returned, written, muts, writes, eopts, thr,
          race, ret>>

\* --------------------------------------------------------------- threads
Threads == 1..MaxThr

\* A thread outside any call; res is the result of its last call.
NoRes == [op |-> "none", n |-> 0, s |-> ""]
Idle(res) ==
    [op |-> "idle", pc |-> "idle", recv |-> NilPtr, k |-> "", v |-> IntV(0),
     m |-> NilMap, c |-> NilMap, todo |-> {}, acc |-> {}, conc |-> {}, res |-> res]

\* ------------------------------------------------------------- Go maps
Put(f, k, v) == [x \in DOMAIN f \cup {k} |-> IF x = k THEN v ELSE f[x]]
Del(f, k) == [x \in DOMAIN f \ {k} |-> f[x]]

MapRefs(h, a) == {h[a][k].v : k \in {x \in DOMAIN h[a] : h[a][x].k = "map"}} \ {NilMap}

\* The maps reachable from map a (a itself included).
RECURSIVE Reach(_, _)
Reach(h, a) ==
    IF a = NilMap THEN {} ELSE {a} \cup UNION {Reach(h, b) : b \in MapRefs(h, a)}

\* The value of a map as a tree, by structure only: the set of <<path, leaf>>
\* pairs, where a leaf is an int, a nil map or a non-nil map.
RECURSIVE Struct(_, _, _)
Struct(h, a, path) ==
    IF a = NilMap THEN {<<path, "nil", 0>>}
    ELSE {<<path, "map", 0>>} \cup
         UNION { IF h[a][k].k = "map"
                 THEN Struct(h, h[a][k].v, Append(path, k))
                 ELSE {<<Append(path, k), "int", h[a][k].v>>} : k \in DOMAIN h[a] }

\* cloneMap with the len(in) == 0 test dropped.
RECURSIVE cloneMap_noNormalize(_, _)
cloneMap_noNormalize(h, in) ==
    LET out == Len(h) + 1
        src == IF in = NilMap THEN <<>> ELSE h[in]
        RECURSIVE loop(_, _)
        loop(hh, ks) ==
            IF ks = {} THEN hh
            ELSE LET k == CHOOSE x \in ks : TRUE
                     v == src[k]
                 IN IF v.k = "map"
                    THEN LET r == cloneMap_noNormalize(hh, v.v)
                         IN loop([r.h EXCEPT ![out] = Put(@, k, MapV(r.out))], ks \ {k})
                    ELSE loop([hh EXCEPT ![out] = Put(@, k, v)], ks \ {k})
    IN [h |-> loop(Append(h, <<>>), DOMAIN src), out |-> out]

\* cloneMap copying the top level only.
cloneMap_shallow(h, in) ==
    IF in = NilMap \/ DOMAIN h[in] = {}
    THEN [h |-> h, out |-> NilMap]
    ELSE [h |-> Append(h, h[in]), out |-> Len(h) + 1]

\* cloneMap(in): the heap after the call and the address returned.
RECURSIVE cloneMap(_, _)
cloneMap(h, in) ==
    IF in = NilMap \/ DOMAIN h[in] = {}
    THEN [h |-> h, out |-> NilMap]
    ELSE LET out == Len(h) + 1
             RECURSIVE loop(_, _)
             loop(hh, ks) ==
                 IF ks = {} THEN hh
                 ELSE LET k == CHOOSE x \in ks : TRUE
                          v == h[in][k]
                      IN IF v.k = "map"
                         THEN LET r == cloneMap(hh, v.v)
                              IN loop([r.h EXCEPT ![out] = Put(@, k, MapV(r.out))], ks \ {k})
                         ELSE loop([hh EXCEPT ![out] = Put(@, k, v)], ks \ {k})
         IN [h |-> loop(Append(h, <<>>), DOMAIN h[in]), out |-> out]

\* ------------------------------------------------------- the Error type
\* A store is the three heaps: [maps, errs, frgn].  Every function below
\* takes the store it runs in and returns the store it leaves, with its
\* result in field out.
Store(m, e, g) == [maps |-> m, errs |-> e, frgn |-> g]

\* A getter's outcome: a nil receiver is dereferenced, which panics.
Panic == [panic |-> TRUE, n |-> 0, s |-> "", e |-> NilErr]
Value(n, s, e) == [panic |-> FALSE, n |-> n, s |-> s, e |-> e]

Unwrap(S, p) ==
    IF p = NilPtr THEN Panic ELSE Value(0, "", S.errs[p].cause)

HTTPStatus(S, p) ==
    IF p = NilPtr THEN Panic ELSE Value(S.errs[p].httpStatus, "", NilErr)

Code(S, p) ==
    IF p = NilPtr THEN Panic ELSE Value(0, S.errs[p].code, NilErr)

Key(S, p) ==
    IF p = NilPtr THEN Panic ELSE Value(0, S.errs[p].key, NilErr)

Detail(S, p) ==
    IF p = NilPtr THEN Panic ELSE Value(0, S.errs[p].detail, NilErr)

\* Context(): the clone's address in out, the heap with the clone in maps.
Context(S, p) ==
    IF p = NilPtr
    THEN [panic |-> TRUE, maps |-> S.maps, out |-> NilMap]
    ELSE LET c == cloneMap(S.maps, S.errs[p].context)
         IN [panic |-> FALSE, maps |-> c.h, out |-> c.out]

\* strconv-style decimal rendering of an int (the %d verb).
Digit(d) == <<"0", "1", "2", "3", "4", "5", "6", "7", "8", "9">>[d + 1]

RECURSIVE Itoa(_)
Itoa(n) ==
    IF n < 0 THEN "-" \o Itoa(0 - n)
    ELSE IF n < 10 THEN Digit(n)
    ELSE Itoa(n \div 10) \o Digit(n % 10)

\* Error() rendering detail as well.
RECURSIVE ErrorString_leaky(_, _)
ErrorString_leaky(S, p) ==
    IF p = NilPtr THEN "<nil>"
    ELSE LET e == S.errs[p]
             head == e.code \o " [" \o e.key \o "] (" \o Itoa(e.httpStatus) \o ") " \o e.detail
         IN IF e.cause # NilErr
            THEN head \o ": " \o
                 (IF e.cause.t = "Error" THEN ErrorString_leaky(S, e.cause.p)
                  ELSE S.frgn[e.cause.p].msg)
            ELSE head

\* (*Error).Error() and the %v rendering of an error value, which calls the
\* value's own Error method.
RECURSIVE ErrorString(_, _), ValueString(_, _)
ErrorString(S, p) ==
    IF p = NilPtr THEN "<nil>"
    ELSE LET e == S.errs[p]
             head == e.code \o " [" \o e.key \o "] (" \o Itoa(e.httpStatus) \o ")"
         IN IF e.cause # NilErr
            THEN head \o ": " \o ValueString(S, e.cause)
            ELSE head

ValueString(S, err) ==
    IF err.t = "Error" THEN ErrorString(S, err.p)
    ELSE IF err.t = "foreign"
    THEN LET g == S.frgn[err.p]
         IN IF g.wraps = NilErr THEN g.msg
            ELSE g.msg \o ": " \o ValueString(S, g.wraps)
    ELSE "<nil>"

\* New(httpStatus, code, key, detail, ctx, cause...): cause is the variadic
\* slice, of which only the first element is used.
New(S, httpStatus, code, key, detail, ctx, cause) ==
    LET c == cloneMap(S.maps, ctx)
        e == [httpStatus |-> httpStatus, code |-> code, key |-> key,
              detail |-> detail, context |-> c.out,
              cause |-> IF Len(cause) > 0 THEN cause[1] ELSE NilErr]
    IN [maps |-> c.h, errs |-> Append(S.errs, e), frgn |-> S.frgn,
        out |-> Len(S.errs) + 1]

WithContextKV(S, p, k, v) ==
    IF p = NilPtr
    THEN [maps |-> S.maps, errs |-> S.errs, frgn |-> S.frgn, out |-> NilPtr]
    ELSE LET fresh == S.errs[p].context = NilMap
             a == IF fresh THEN Len(S.maps) + 1 ELSE S.errs[p].context
             h == IF fresh THEN Append(S.maps, <<>>) ELSE S.maps
         IN [maps |-> [h EXCEPT ![a] = Put(@, k, v)],
             errs |-> [S.errs EXCEPT ![p].context = a],
             frgn |-> S.frgn, out |-> p]

\* WithContextMap keeping the value of a key the context already has.
WithContextMap_keepOld(S, p, m) ==
    IF p = NilPtr \/ m = NilMap \/ DOMAIN S.maps[m] = {}
    THEN [maps |-> S.maps, errs |-> S.errs, frgn |-> S.frgn, out |-> p]
    ELSE LET fresh == S.errs[p].context = NilMap
             a == IF fresh THEN Len(S.maps) + 1 ELSE S.errs[p].context
             h == IF fresh THEN Append(S.maps, <<>>) ELSE S.maps
             src == S.maps[m]
             merged == [x \in DOMAIN h[a] \cup DOMAIN src |->
                          IF x \in DOMAIN h[a] THEN h[a][x] ELSE src[x]]
         IN [maps |-> [h EXCEPT ![a] = merged],
             errs |-> [S.errs EXCEPT ![p].context = a],
             frgn |-> S.frgn, out |-> p]

WithContextMap(S, p, m) ==
    IF p = NilPtr \/ m = NilMap \/ DOMAIN S.maps[m] = {}
    THEN [maps |-> S.maps, errs |-> S.errs, frgn |-> S.frgn, out |-> p]
    ELSE LET fresh == S.errs[p].context = NilMap
             a == IF fresh THEN Len(S.maps) + 1 ELSE S.errs[p].context
             h == IF fresh THEN Append(S.maps, <<>>) ELSE S.maps
             src == S.maps[m]
             merged == [x \in DOMAIN h[a] \cup DOMAIN src |->
                          IF x \in DOMAIN src THEN src[x] ELSE h[a][x]]
         IN [maps |-> [h EXCEPT ![a] = merged],
             errs |-> [S.errs EXCEPT ![p].context = a],
             frgn |-> S.frgn, out |-> p]

\* ----------------------------------------------------------- options.go
\* An Option value, as the closure it is: which field it sets and to what.
Opt(o, n, s, m, c) == [o |-> o, n |-> n, s |-> s, m |-> m, c |-> c]
WithHTTPStatus(status) == Opt("WithHTTPStatus", status, "", NilMap, NilErr)
WithDetail(detail) == Opt("WithDetail", 0, detail, NilMap, NilErr)
WithContext(ctx) == Opt("WithContext", 0, "", ctx, NilErr)
WithCause(cause) == Opt("WithCause", 0, "", NilMap, cause)

\* o(e): the store after the closure ran on the Error at p.
ApplyOption(S, p, o) ==
    IF o.o = "WithHTTPStatus"
    THEN Store(S.maps, [S.errs EXCEPT ![p].httpStatus = o.n], S.frgn)
    ELSE IF o.o = "WithDetail"
    THEN Store(S.maps, [S.errs EXCEPT ![p].detail = o.s], S.frgn)
    ELSE IF o.o = "WithContext"
    THEN LET c == cloneMap(S.maps, o.m)
         IN Store(c.h, [S.errs EXCEPT ![p].context = c.out], S.frgn)
    ELSE Store(S.maps, [S.errs EXCEPT ![p].cause = o.c], S.frgn)

\* The option loop of E run from the last option to the first.
RECURSIVE ApplyOptions_firstWins(_, _, _)
ApplyOptions_firstWins(S, p, opts) ==
    IF opts = <<>> THEN S
    ELSE ApplyOption(ApplyOptions_firstWins(S, p, Tail(opts)), p, Head(opts))

RECURSIVE ApplyOptions(_, _, _)
ApplyOptions(S, p, opts) ==
    IF opts = <<>> THEN S
    ELSE ApplyOptions(ApplyOption(S, p, Head(opts)), p, Tail(opts))

E(S, code, key, opts) ==
    LET e == [httpStatus |-> defaultHTTPStatus, code |-> code, key |-> key,
              detail |-> "error", context |-> NilMap, cause |-> NilErr]
        p == Len(S.errs) + 1
        T == ApplyOptions(Store(S.maps, Append(S.errs, e), S.frgn), p, opts)
    IN [maps |-> T.maps, errs |-> T.errs, frgn |-> T.frgn, out |-> p]

\* ------------------------------------------------------- Wrap and Ensure
\* errors.New(msg): a fresh error of a foreign type, with no Unwrap.
ErrorsNew(S, msg) ==
    [maps |-> S.maps, errs |-> S.errs,
     frgn |-> Append(S.frgn, [msg |-> msg, wraps |-> NilErr]),
     out |-> FrgnPtr(Len(S.frgn) + 1)]

\* Wrap storing no placeholder for a nil cause.
Wrap_noPlaceholder(S, cause, httpStatus, code, key, detail, ctx) ==
    LET N == New(S, httpStatus, code, key, detail, ctx, <<>>)
    IN [maps |-> N.maps, errs |-> [N.errs EXCEPT ![N.out].cause = cause],
        frgn |-> N.frgn, out |-> N.out]

\* Wrap storing the cause of an *Error cause in its place.
Wrap_flatten(S, cause, httpStatus, code, key, detail, ctx) ==
    LET C == IF cause = NilErr THEN ErrorsNew(S, "unknown")
             ELSE [maps |-> S.maps, errs |-> S.errs, frgn |-> S.frgn, out |-> cause]
        inner == IF C.out.t = "Error" /\ C.out.p # NilPtr /\ S.errs[C.out.p].cause # NilErr
                 THEN S.errs[C.out.p].cause ELSE C.out
        N == New(Store(C.maps, C.errs, C.frgn), httpStatus, code, key, detail, ctx, <<>>)
    IN [maps |-> N.maps, errs |-> [N.errs EXCEPT ![N.out].cause = inner],
        frgn |-> N.frgn, out |-> N.out]

Wrap(S, cause, httpStatus, code, key, detail, ctx) ==
    LET C == IF cause = NilErr THEN ErrorsNew(S, "unknown")
             ELSE [maps |-> S.maps, errs |-> S.errs, frgn |-> S.frgn, out |-> cause]
        N == New(Store(C.maps, C.errs, C.frgn), httpStatus, code, key, detail, ctx, <<>>)
    IN [maps |-> N.maps, errs |-> [N.errs EXCEPT ![N.out].cause = C.out],
        frgn |-> N.frgn, out |-> N.out]

\* errors.As(err, &e) for e of type *Error: the first value of the chain
\* assignable to *Error (a typed nil pointer included), following Unwrap.
RECURSIVE As(_, _)
As(S, err) ==
    IF err.t = "nil" THEN [ok |-> FALSE, e |-> NilPtr]
    ELSE IF err.t = "Error" THEN [ok |-> TRUE, e |-> err.p]
    ELSE As(S, S.frgn[err.p].wraps)

\* Ensure wrapping every Error it is given once more.
Ensure_rewrap(S, err) ==
    IF err = NilErr
    THEN [maps |-> S.maps, errs |-> S.errs, frgn |-> S.frgn, out |-> NilPtr]
    ELSE Wrap(S, err, defaultHTTPStatus, "internal.error", "internal", "internal error", NilMap)

Ensure(S, err) ==
    IF err = NilErr
    THEN [maps |-> S.maps, errs |-> S.errs, frgn |-> S.frgn, out |-> NilPtr]
    ELSE LET r == As(S, err)
         IN IF r.ok
            THEN [maps |-> S.maps, errs |-> S.errs, frgn |-> S.frgn, out |-> r.e]
            ELSE Wrap(S, err, defaultHTTPStatus, "internal.error", "internal",
                      "internal error", NilMap)

\* -------------------------------------------------------------- actions
S0 == Store(maps, errs, frgn)

Ret(op, recv, r) == [op |-> op, recv |-> recv, panic |-> r.panic, n |-> r.n, s |-> r.s, e |-> r.e]

\* Every map the caller can reach through the references it holds.
CallerReach == UNION {Reach(maps, a) : a \in held}

\* The error values the caller can pass: nil, any *Error (the typed nil
\* pointer included) and any foreign error.
ErrVals ==
    {NilErr} \cup {ErrPtr(p) : p \in 0..Len(errs)} \cup {FrgnPtr(q) : q \in 1..Len(frgn)}

Pairs(e, h, a) == {<<e, b>> : b \in Reach(h, a)}

Fits(T) == Len(T.maps) <= MaxMaps /\ Len(T.errs) <= MaxErrs /\ Len(T.frgn) <= MaxFrgn

Commit(T) == maps' = T.maps /\ errs' = T.errs /\ frgn' = T.frgn

\* The caller assigns a[k] = v on a map it can reach (never making a map
\* contain itself).
SetKey(a, k, v) ==
    /\ muts < MaxMuts
    /\ v.k = "map" => a \notin Reach(maps, v.v)
    /\ maps' = [maps EXCEPT ![a] = Put(@, k, v)]
    /\ maps' # maps
    /\ muts' = muts + 1
    /\ ret' = Ret("SetKey", NilPtr, Value(a, k, NilErr))
    /\ UNCHANGED <<thr, race, eopts, errs, frgn, held, given, returned, written, writes>>

\* The caller runs delete(a, k) on a map it can reach.
DeleteKey(a, k) ==
    /\ muts < MaxMuts
    /\ k \in DOMAIN maps[a]
    /\ maps' = [maps EXCEPT ![a] = Del(@, k)]
    /\ muts' = muts + 1
    /\ ret' = Ret("DeleteKey", NilPtr, Value(a, k, NilErr))
    /\ UNCHANGED <<thr, race, eopts, errs, frgn, held, given, returned, written, writes>>

\* The caller makes an error of a foreign type: errors.New(msg), or
\* fmt.Errorf("msg: %w", wraps) when wraps is not nil.
MakeForeign(msg, wraps) ==
    /\ Len(frgn) < MaxFrgn
    /\ frgn' = Append(frgn, [msg |-> msg, wraps |-> wraps])
    /\ ret' = Ret("MakeForeign", NilPtr, Value(0, "", FrgnPtr(Len(frgn) + 1)))
    /\ UNCHANGED <<thr, race, eopts, maps, errs, held, given, returned, written, muts, writes>>

DoNew(f, ctx, cause) ==
    /\ Len(errs) < MaxErrs
    /\ \E T \in {New(S0, f.httpStatus, f.code, f.key, f.detail, ctx, cause)} :
       /\ Fits(T)
       /\ Commit(T)
       /\ given' = given \cup Pairs(T.out, maps, ctx)
       /\ ret' = Ret("New", NilPtr, Value(T.out, "", NilErr))
       /\ UNCHANGED <<thr, race, eopts, held, returned, written, muts, writes>>

DoWrap(cause, f, ctx) ==
    /\ Len(errs) < MaxErrs
    /\ \E T \in {Wrap(S0, cause, f.httpStatus, f.code, f.key, f.detail, ctx)} :
       /\ Fits(T)
       /\ Commit(T)
       /\ given' = given \cup Pairs(T.out, maps, ctx)
       /\ ret' = Ret("Wrap", NilPtr, Value(T.out, "", cause))
       /\ UNCHANGED <<thr, race, eopts, held, returned, written, muts, writes>>

DoE(f, opts) ==
    /\ Len(errs) < MaxErrs
    /\ \E T \in {E(S0, f.code, f.key, opts)} :
       /\ Fits(T)
       /\ Commit(T)
       /\ given' = given \cup
            UNION {Pairs(T.out, maps, opts[i].m) :
                     i \in {j \in 1..Len(opts) : opts[j].o = "WithContext"}}
       /\ ret' = Ret("E", NilPtr, Value(T.out, "", NilErr))
       /\ eopts' = opts
       /\ UNCHANGED <<thr, race, held, returned, written, muts, writes>>

DoEnsure(err) ==
    \E T \in {Ensure(S0, err)} :
       /\ Fits(T)
       /\ Commit(T)
       /\ ret' = Ret("Ensure", NilPtr, Value(T.out, "", err))
       /\ UNCHANGED <<thr, race, eopts, held, given, returned, written, muts, writes>>

\* e.Context(); the caller keeps the map it gets.
DoContext(p) ==
    \E r \in {Context(S0, p)} :
       /\ Len(r.maps) <= MaxMaps
       /\ maps' = r.maps
       /\ held' = held \cup ({r.out} \ {NilMap})
       /\ returned' = returned \cup Pairs(p, r.maps, r.out)
       /\ ret' = [op |-> "Context", recv |-> p, panic |-> r.panic, n |-> r.out,
                  s |-> "", e |-> NilErr]
       /\ UNCHANGED <<thr, race, eopts, errs, frgn, given, written, muts, writes>>

\* One of the field getters or Unwrap.
DoGetter(op, p) ==
    /\ ret' = Ret(op, p,
                  CASE op = "HTTPStatus" -> HTTPStatus(S0, p)
                    [] op = "Code" -> Code(S0, p)
                    [] op = "Key" -> Key(S0, p)
                    [] op = "Detail" -> Detail(S0, p)
                    [] op = "Unwrap" -> Unwrap(S0, p))
    /\ UNCHANGED <<thr, race, eopts, maps, errs, frgn, held, given, returned, written, muts, writes>>

DoError(p) ==
    /\ ret' = Ret("Error", p, Value(0, ErrorString(S0, p), NilErr))
    /\ UNCHANGED <<thr, race, eopts, maps, errs, frgn, held, given, returned, written, muts, writes>>

DoWithContextKV(p, k, v) ==
    \E T \in {WithContextKV(S0, p, k, v)} :
       /\ writes < MaxWrites
       /\ writes' = writes + 1
       /\ Fits(T)
       /\ Commit(T)
       /\ written' = written \cup
            (IF p # NilPtr /\ v.k = "map" THEN Pairs(p, maps, v.v) ELSE {})
       /\ ret' = Ret("WithContextKV", p, Value(T.out, k, NilErr))
       /\ UNCHANGED <<thr, race, eopts, held, given, returned, muts>>

DoWithContextMap(p, m) ==
    \E T \in {WithContextMap(S0, p, m)} :
       /\ writes < MaxWrites
       /\ writes' = writes + 1
       /\ Fits(T)
       /\ Commit(T)
       /\ written' = written \cup (IF p # NilPtr THEN Pairs(p, maps, m) ELSE {})
       /\ ret' = Ret("WithContextMap", p, Value(T.out, "", NilErr))
       /\ UNCHANGED <<thr, race, eopts, held, given, returned, muts>>

\* ------------------------------------------- calls from several threads
\* The threads share the Error at address 1, each makes one call on it, and
\* nothing orders their calls.  A call is a sequence of steps, each one access to shared memory: the
\* context field of the Error (location <<"context", p>>), another field of
\* it, or a map object (location <<"map", a>>).
Acc(kind, id, w) == [loc |-> <<kind, id>>, w |-> w]

\* Context() storing into the context field as well.
LoadContext_memo(p) == {Acc("context", p, TRUE)}

\* The read of e.context.
LoadContext(p) == {Acc("context", p, FALSE)}

\* The write of e.context (e.context = make(...)).
StoreContext(p) == {Acc("context", p, TRUE)}

\* cloneMap(in) reads in and every map nested in it; the maps it makes are
\* its own until it returns.
CloneAccess(h, in) == {Acc("map", a, FALSE) : a \in Reach(h, in)}

\* The accesses X made under the name of call op.
Tag(X, op) == {[loc |-> x.loc, w |-> x.w, op |-> op] : x \in X}

\* The pairs of accesses, one of X and one of Y, to the same location, one
\* of them at least a write.
Conflicts(X, Y) ==
    {[loc |-> x.loc, w |-> IF x.w THEN x.op ELSE y.op, o |-> IF x.w THEN y.op ELSE x.op] :
        <<x, y>> \in {z \in X \X Y : z[1].loc = z[2].loc /\ (z[1].w \/ z[2].w)}}

InFlight(t) == {u \in Threads \ {t} : thr[u].op # "idle"}

\* Thread t makes the accesses X and goes on as rec, inside its call or, if
\* done, out of it.  Its accesses race with the conflicting accesses of
\* every call that overlaps its own: those of the calls in flight and those
\* of the calls that ended during it (conc).
Step(t, rec, X, done) ==
    LET mine == Tag(X, rec.op)
        seen == thr[t].conc \cup UNION {thr[u].acc : u \in InFlight(t)}
    IN /\ race' = race \cup Conflicts(mine, seen)
       /\ thr' = [u \in Threads |->
                    IF u = t
                    THEN IF done THEN Idle(rec.res)
                         ELSE [rec EXCEPT !.acc = thr[t].acc \cup mine,
                                          !.conc = thr[t].conc]
                    ELSE IF done /\ u \in InFlight(t)
                    THEN [thr[u] EXCEPT !.conc = @ \cup thr[t].acc \cup mine]
                    ELSE thr[u]]

\* Thread t has not made its call yet.
Fresh(t) == thr[t].op = "idle" /\ thr[t].res = NoRes

Begin(t, op, p) == [Idle(thr[t].res) EXCEPT !.op = op, !.recv = p]

Result(t, op, n, str) == [thr[t] EXCEPT !.res = [op |-> op, n |-> n, s |-> str]]

\* e.Context(), first step: cloneMap's argument e.context is read.
CtxLoad(t, p) ==
    /\ Fresh(t)
    /\ Step(t, [Begin(t, "Context", p) EXCEPT !.pc = "clone", !.c = errs[p].context],
            LoadContext(p), FALSE)
    /\ UNCHANGED <<maps, errs, frgn, held, given, returned, written, muts, writes,
                   eopts, ret>>

\* e.Context(), second step: cloneMap runs and its result is returned.
CtxClone(t) ==
    /\ thr[t].op = "Context" /\ thr[t].pc = "clone"
    /\ \E r \in {cloneMap(maps, thr[t].c)} :
          /\ Len(r.h) <= MaxMaps
          /\ maps' = r.h
          /\ Step(t, Result(t, "Context", r.out, ""), CloneAccess(maps, thr[t].c), TRUE)
    /\ UNCHANGED <<errs, frgn, held, given, returned, written, muts, writes, eopts, ret>>

\* e.Code() and e.Detail(): one read of the field.
GetField(t, p, op) ==
    /\ Fresh(t)
    /\ Step(t, [Begin(t, op, p) EXCEPT
                   !.res = [op |-> op, n |-> 0,
                            s |-> IF op = "Code" THEN Code(S0, p).s ELSE Detail(S0, p).s]],
            {Acc(IF op = "Code" THEN "code" ELSE "detail", p, FALSE)}, TRUE)
    /\ UNCHANGED <<maps, errs, frgn, held, given, returned, written, muts, writes,
                   eopts, ret>>

\* e.WithContextKV(k, v), first step: the test e.context == nil.
KVLoad(t, p, k, v) ==
    /\ Fresh(t)
    /\ writes' = writes + 1
    /\ Step(t, [Begin(t, "WithContextKV", p) EXCEPT
                   !.pc = IF errs[p].context = NilMap THEN "make" ELSE "store",
                   !.k = k, !.v = v],
            LoadContext(p), FALSE)
    /\ UNCHANGED <<maps, errs, frgn, held, given, returned, written, muts, eopts, ret>>

\* e.context = make(map[string]any, n), in either helper.
Make(t) ==
    /\ thr[t].op \in {"WithContextKV", "WithContextMap"} /\ thr[t].pc = "make"
    /\ Len(maps) < MaxMaps
    /\ maps' = Append(maps, <<>>)
    /\ errs' = [errs EXCEPT ![thr[t].recv].context = Len(maps) + 1]
    /\ Step(t, [thr[t] EXCEPT !.pc = "store"], StoreContext(thr[t].recv), FALSE)
    /\ UNCHANGED <<frgn, held, given, returned, written, muts, writes, eopts, ret>>

\* e.context[k] = v and return e.
KVStore(t) ==
    /\ thr[t].op = "WithContextKV" /\ thr[t].pc = "store"
    /\ LET p == thr[t].recv
           a == errs[p].context
       IN /\ maps' = [maps EXCEPT ![a] = Put(@, thr[t].k, thr[t].v)]
          /\ Step(t, Result(t, "WithContextKV", p, ""),
                  LoadContext(p) \cup {Acc("map", a, TRUE)}, TRUE)
    /\ UNCHANGED <<errs, frgn, held, given, returned, written, muts, writes, eopts, ret>>

\* e.WithContextMap(m), first step: len(m) == 0 returns e; otherwise the
\* test e.context == nil.
MapLoad(t, p, m) ==
    /\ Fresh(t)
    /\ writes' = writes + 1
    /\ IF m = NilMap \/ DOMAIN maps[m] = {}
       THEN Step(t, [Begin(t, "WithContextMap", p) EXCEPT
                       !.res = [op |-> "WithContextMap", n |-> p, s |-> ""]],
                 {Acc("map", a, FALSE) : a \in {m} \ {NilMap}}, TRUE)
       ELSE Step(t, [Begin(t, "WithContextMap", p) EXCEPT
                       !.pc = IF errs[p].context = NilMap THEN "make" ELSE "store",
                       !.m = m, !.todo = DOMAIN maps[m]],
                 {Acc("map", m, FALSE)} \cup LoadContext(p), FALSE)
    /\ UNCHANGED <<maps, errs, frgn, held, given, returned, written, muts, eopts, ret>>

\* One iteration of for k, v := range m { e.context[k] = v }; after the
\* last one e is returned.
MapStore(t) ==
    /\ thr[t].op = "WithContextMap" /\ thr[t].pc = "store"
    /\ \E k \in thr[t].todo :
          LET p == thr[t].recv
              a == errs[p].context
              left == thr[t].todo \ {k}
          IN /\ maps' = [maps EXCEPT ![a] = Put(@, k, maps[thr[t].m][k])]
             /\ Step(t, [Result(t, "WithContextMap", p, "") EXCEPT !.todo = left],
                     LoadContext(p) \cup {Acc("map", a, TRUE), Acc("map", thr[t].m, FALSE)},
                     left = {})
    /\ UNCHANGED <<errs, frgn, held, given, returned, written, muts, writes, eopts, ret>>

\* ------------------------------------------------------- specifications
Getters == {"HTTPStatus", "Code", "Key", "Detail", "Unwrap"}

CallerMaps == CallerReach \cup {NilMap}

CallerVals == {IntV(2)} \cup {MapV(a) : a \in CallerMaps}

\* The two map literals a caller starts with: N, at address 2, is {} or
\* {"a": 1}; M, at address 1, has "a": 1 or no "a", and "b": N, "b": nil map
\* or no "b".
LiteralsN == {<<>>, [x \in {"a"} |-> IntV(1)]}
LiteralsM ==
    {f \in UNION {[D -> {IntV(1), MapV(2), MapV(NilMap)}] : D \in SUBSET Keys} :
        /\ "a" \in DOMAIN f => f["a"] = IntV(1)
        /\ "b" \in DOMAIN f => f["b"] # IntV(1)}

\* A caller that holds the one map literal {"a": 1}, at address 1.
Init ==
    /\ maps = <<[x \in {"a"} |-> IntV(1)]>>
    /\ errs = <<>>
    /\ frgn = <<>>
    /\ held = {1}
    /\ given = {}
    /\ returned = {}
    /\ written = {}
    /\ muts = 0
    /\ writes = 0
    /\ eopts = <<>>
    /\ thr = [t \in Threads |-> Idle(NoRes)]
    /\ race = {}
    /\ ret = Ret("init", NilPtr, Value(0, "", NilErr))

\* Callers that hold two map literals, construct one error from them, enrich
\* and read its context, and mutate the maps they hold.
InitCtx ==
    /\ maps \in {<<m, n>> : m \in LiteralsM, n \in LiteralsN}
    /\ errs = <<>>
    /\ frgn = <<>>
    /\ held = {1, 2}
    /\ given = {}
    /\ returned = {}
    /\ written = {}
    /\ muts = 0
    /\ writes = 0
    /\ eopts = <<>>
    /\ thr = [t \in Threads |-> Idle(NoRes)]
    /\ race = {}
    /\ ret = Ret("init", NilPtr, Value(0, "", NilErr))

NextCtx ==
    \/ \E a \in CallerReach, k \in Keys, i \in Ints : SetKey(a, k, IntV(i))
    \/ \E a \in CallerReach, k \in Keys : DeleteKey(a, k)
    \/ \E ctx \in CallerMaps : errs = <<>> /\ DoNew(F1, ctx, <<>>)
    \/ \E ctx \in CallerMaps : errs = <<>> /\ DoWrap(NilErr, F1, ctx)
    \/ \E ctx \in CallerMaps : errs = <<>> /\ DoE(F1, <<WithContext(ctx)>>)
    \/ \E err \in ErrVals : errs = <<>> /\ DoEnsure(err)
    \/ \E p \in 1..Len(errs) : DoContext(p)
    \/ \E p \in 1..Len(errs), k \in Keys, v \in CallerVals : DoWithContextKV(p, k, v)
    \/ \E p \in 1..Len(errs), m \in CallerMaps : DoWithContextMap(p, m)

SpecCtx == InitCtx /\ [][NextCtx]_vars

\* The same callers, when they leave the maps they hold alone.
NextBuild ==
    \/ \E ctx \in CallerMaps : errs = <<>> /\ DoNew(F1, ctx, <<>>)
    \/ \E ctx \in CallerMaps : errs = <<>> /\ DoWrap(NilErr, F1, ctx)
    \/ \E ctx \in CallerMaps : errs = <<>> /\ DoE(F1, <<WithContext(ctx)>>)
    \/ \E err \in ErrVals : errs = <<>> /\ DoEnsure(err)
    \/ \E p \in 1..Len(errs) : DoContext(p)
    \/ \E p \in 1..Len(errs), k \in Keys, v \in CallerVals : DoWithContextKV(p, k, v)
    \/ \E p \in 1..Len(errs), m \in CallerMaps : DoWithContextMap(p, m)

SpecBuild == InitCtx /\ [][NextBuild]_vars

\* The attributes and context callers of the next two specifications pass
\* to a constructor: F1 with the map literal, F2 and F3 with no context.
Args == {<<F1, 1>>, <<F2, NilMap>>, <<F3, NilMap>>}

\* Callers that build causal chains of errors, normalize them and render them.
NextChain ==
    \/ \E w \in ErrVals \ {ErrPtr(NilPtr)} : MakeForeign("boom", w)
    \/ \E a \in Args : DoNew(a[1], a[2], <<>>)
    \/ \E c \in ErrVals, a \in Args : DoWrap(c, a[1], a[2])
    \/ \E err \in ErrVals : DoEnsure(err)
    \/ \E p \in 0..Len(errs) : DoError(p)

SpecChain == Init /\ [][NextChain]_vars

\* Callers that read errors back through the accessors.
NextRead ==
    \/ \E a \in Args, c \in ErrVals : DoNew(a[1], a[2], IF c = NilErr THEN <<>> ELSE <<c>>)
    \/ \E p \in 0..Len(errs) : DoContext(p)
    \/ \E op \in Getters, p \in 0..Len(errs) : DoGetter(op, p)

SpecRead == Init /\ [][NextRead]_vars

\* Callers that hold three map literals (the third is {"a": 2, "b": 1}),
\* construct an error from one of them, wrap a second one with no context,
\* and enrich them, a nil *Error included.
InitEnrich ==
    /\ maps \in {<<m, n, [x \in Keys |-> IF x = "a" THEN IntV(2) ELSE IntV(1)]>> :
                    m \in LiteralsM, n \in LiteralsN}
    /\ errs = <<>>
    /\ frgn = <<>>
    /\ held = {1, 2, 3}
    /\ given = {}
    /\ returned = {}
    /\ written = {}
    /\ muts = 0
    /\ writes = 0
    /\ eopts = <<>>
    /\ thr = [t \in Threads |-> Idle(NoRes)]
    /\ race = {}
    /\ ret = Ret("init", NilPtr, Value(0, "", NilErr))

NextEnrich ==
    \/ \E ctx \in held \cup {NilMap} : errs = <<>> /\ DoNew(F1, ctx, <<>>)
    \/ Len(errs) = 1 /\ DoWrap(NilErr, F2, NilMap)
    \/ \E p \in 0..Len(errs), k \in Keys, v \in CallerVals : DoWithContextKV(p, k, v)
    \/ \E p \in 0..Len(errs), m \in CallerMaps : DoWithContextMap(p, m)

SpecEnrich == InitEnrich /\ [][NextEnrich]_vars

\* The options a caller can make: two statuses, two details, every map it
\* holds or nil as context, every error value it has as cause.
Options ==
    {WithHTTPStatus(n) : n \in {400, 404}}
       \cup {WithDetail(d) : d \in {"d1", "d2"}}
       \cup {WithContext(m) : m \in CallerMaps}
       \cup {WithCause(c) : c \in ErrVals}

OptSeqs == UNION {[1..n -> Options] : n \in 0..MaxOpts}

\* Callers that hold two map literals, may make a foreign error, and build
\* one error with E from a list of options.
NextOpts ==
    \/ MakeForeign("boom", NilErr)
    \/ \E os \in OptSeqs : errs = <<>> /\ DoE(F1, os)

SpecOpts == InitCtx /\ [][NextOpts]_vars

\* One Error is built from the caller's map literal or from no context,
\* and then the threads call its accessors and helpers.
NextShared ==
    \/ \E ctx \in {1, NilMap} : errs = <<>> /\ DoNew(F1, ctx, <<>>)
    \/ \E t \in Threads : Len(errs) = 1 /\ CtxLoad(t, 1)
    \/ \E t \in Threads : CtxClone(t)
    \/ \E t \in Threads, op \in {"Code", "Detail"} : Len(errs) = 1 /\ GetField(t, 1, op)
    \/ \E t \in Threads, k \in Keys : Len(errs) = 1 /\ KVLoad(t, 1, k, IntV(2))
    \/ \E t \in Threads : Make(t)
    \/ \E t \in Threads : KVStore(t)
    \/ \E t \in Threads, m \in {1, NilMap} : Len(errs) = 1 /\ MapLoad(t, 1, m)
    \/ \E t \in Threads : MapStore(t)

SpecShared == Init /\ [][NextShared]_vars

\* ---------------------------------------------------------------- claims
\* What e.Context() would return in heap h, by structure.
ContextValue(h, es, p) ==
    LET r == Context(Store(h, es, <<>>), p) IN Struct(r.maps, r.out, <<>>)

\* The internal maps of the Error at p.
Internal(h, es, p) == Reach(h, es[p].context)

\* C1: a caller's assignment to or delete on a map that was (nested in) the
\* context given to an Error's constructor, or (nested in) a result of that
\* Error's Context(), never changes what its Context() returns, whatever
\* calls were made since.
C1_ConstructAndReadIsolated ==
    [][muts' # muts =>
         \A p \in 1..Len(errs) :
            <<p, ret'.n>> \in given \cup returned =>
               ContextValue(maps', errs', p) = ContextValue(maps, errs, p)]_vars

\* C2: a caller's assignment to or delete on a map that was (nested in) an
\* argument of an Error's WithContextKV or WithContextMap never changes what
\* its Context() returns.
C2_WriteIsolated ==
    [][muts' # muts =>
         \A p \in 1..Len(errs) :
            <<p, ret'.n>> \in written =>
               ContextValue(maps', errs', p) = ContextValue(maps, errs, p)]_vars

\* C3: HTTPStatus, Code, Key, Detail, Context and Unwrap called on a nil
\* receiver return a value and do not panic.
C3_AccessorsNilSafe ==
    (ret.op \in Getters \cup {"Context"} /\ ret.recv = NilPtr) => ~ret.panic

\* C4: Ensure of an error of a foreign type returns an Error with status 500,
\* code "internal.error", key "internal", detail "internal error", no
\* context, and the input as its cause.
C4_EnsureWrapsForeign ==
    (ret.op = "Ensure" /\ ret.e.t = "foreign") =>
        /\ ret.n # NilPtr
        /\ errs[ret.n] = [httpStatus |-> 500, code |-> "internal.error",
                          key |-> "internal", detail |-> "internal error",
                          context |-> NilMap, cause |-> ret.e]

\* C5: in every state, Context() of every Error returns the nil map or a map
\* with at least one entry.
C5_ContextNilOrNonEmpty ==
    \A p \in 1..Len(errs) :
        LET r == Context(S0, p)
        IN ~r.panic /\ (r.out = NilMap \/ DOMAIN r.maps[r.out] # {})

\* An Error was constructed from a non-nil empty map, nothing was written or
\* mutated since, and its Context() returned nil.
C5_Witness ==
    /\ ret.op = "Context" /\ ret.recv # NilPtr /\ ret.n = NilMap
    /\ muts = 0 /\ writes = 0
    /\ \E a \in 1..Len(maps) : <<ret.recv, a>> \in given /\ DOMAIN maps[a] = {}

\* The structure of map a with every empty map in it replaced by the nil map.
RECURSIVE Normalized(_, _, _)
Normalized(h, a, path) ==
    IF a = NilMap \/ DOMAIN h[a] = {} THEN {<<path, "nil", 0>>}
    ELSE {<<path, "map", 0>>} \cup
         UNION { IF h[a][k].k = "map"
                 THEN Normalized(h, h[a][k].v, Append(path, k))
                 ELSE {<<Append(path, k), "int", h[a][k].v>>} : k \in DOMAIN h[a] }

\* C6 as claimed: for every non-nil map M, New(..., M).Context() is
\* structurally equal to M and shares no map with M.
C6_RoundTrip ==
    [][\A ctx \in CallerReach :
          DoNew(F1, ctx, <<>>) =>
             LET r == Context(Store(maps', errs', frgn'), Len(errs'))
             IN /\ Struct(r.maps, r.out, <<>>) = Struct(maps, ctx, <<>>)
                /\ Reach(r.maps, r.out) \cap Reach(maps, ctx) = {}]_vars

\* C6 as amended: for every non-nil map M, New(..., M).Context() is
\* structurally equal to M with every empty map in it (M itself included)
\* replaced by the nil map, and shares no map with M.
C6_RoundTripNormalized ==
    [][\A ctx \in CallerReach :
          DoNew(F1, ctx, <<>>) =>
             LET r == Context(Store(maps', errs', frgn'), Len(errs'))
             IN /\ Struct(r.maps, r.out, <<>>) = Normalized(maps, ctx, <<>>)
                /\ Reach(r.maps, r.out) \cap Reach(maps, ctx) = {}
                /\ Internal(maps', errs', Len(errs')) \cap Reach(maps, ctx) = {}]_vars

\* New was just called with a map that holds a non-empty nested map.
C6_Witness ==
    /\ ret.op = "New" /\ muts = 0 /\ writes = 0
    /\ \E a \in 1..Len(maps) :
          /\ <<ret.n, a>> \in given
          /\ \E k \in DOMAIN maps[a] :
                /\ maps[a][k].k = "map" /\ maps[a][k].v # NilMap
                /\ DOMAIN maps[maps[a][k].v] # {}
    /\ Cardinality(Internal(maps, errs, ret.n)) = 2

S1 == Store(maps', errs', frgn')

\* (In C7, C8 and C10 the argument of the call is read from ret'.e, where
\* DoWrap and DoEnsure record it.)
\* C7: Wrap's result has a non-nil cause: the cause it was given, by
\* identity, or a fresh error whose message is "unknown" when it was given
\* nil; its other fields are those New gives for the same arguments.
C7_WrapKeepsCause ==
    [][\A c \in {ret'.e}, f \in Fields, ctx \in CallerMaps :
          ret'.op = "Wrap" /\ DoWrap(c, f, ctx) =>
             LET p == Len(errs')
                 e == errs'[p]
                 N == New(S0, f.httpStatus, f.code, f.key, f.detail, ctx, <<>>)
                 n == N.errs[N.out]
             IN /\ ~Unwrap(S1, p).panic /\ Unwrap(S1, p).e # NilErr
                /\ c # NilErr => Unwrap(S1, p).e = c /\ frgn' = frgn
                /\ c = NilErr =>
                      /\ Unwrap(S1, p).e = FrgnPtr(Len(frgn) + 1)
                      /\ frgn' = Append(frgn, [msg |-> "unknown", wraps |-> NilErr])
                      /\ ValueString(S1, e.cause) = "unknown"
                /\ e.httpStatus = f.httpStatus /\ e.code = f.code
                /\ e.key = f.key /\ e.detail = f.detail
                /\ <<e.httpStatus, e.code, e.key, e.detail>> =
                      <<n.httpStatus, n.code, n.key, n.detail>>
                /\ ContextValue(maps', errs', p) = ContextValue(N.maps, N.errs, N.out)
                /\ ContextValue(maps', errs', p) = Normalized(maps, ctx, <<>>)]_vars

\* Wrap was just called with a nil cause and a context, and the result's
\* cause is the placeholder.
C7_Witness ==
    /\ ret.op = "Wrap" /\ ret.e = NilErr
    /\ errs[ret.n].cause.t = "foreign"
    /\ frgn[errs[ret.n].cause.p].msg = "unknown"
    /\ errs[ret.n].context # NilMap

\* C8: Ensure(nil) is nil; Ensure of a *Error returns that pointer and
\* changes nothing; and Ensure of any Ensure result returns it again and
\* changes nothing.
C8_EnsureIdentity ==
    [][\A err \in {ret'.e} :
          ret'.op = "Ensure" /\ DoEnsure(err) =>
             \A again \in {Ensure(S1, ErrPtr(ret'.n))} :
                /\ err = NilErr => ret'.n = NilPtr /\ S1 = S0
                /\ err.t = "Error" => ret'.n = err.p /\ S1 = S0
                /\ again.out = ret'.n
                /\ Store(again.maps, again.errs, again.frgn) = S1]_vars

\* Ensure was just called with a non-nil *Error that has a cause, and
\* returned that pointer.
C8_Witness ==
    /\ ret.op = "Ensure" /\ ret.e.t = "Error" /\ ret.e.p # NilPtr
    /\ ret.n = ret.e.p
    /\ errs[ret.n].cause # NilErr

\* Two error values that agree on everything but detail and context, at
\* every level of their chains.
RECURSIVE SameVisible(_, _, _)
SameVisible(S, v, w) ==
    /\ v.t = w.t
    /\ v.t = "foreign" => v.p = w.p
    /\ v.t = "Error" =>
          /\ (v.p = NilPtr) = (w.p = NilPtr)
          /\ v.p # NilPtr =>
                /\ S.errs[v.p].code = S.errs[w.p].code
                /\ S.errs[v.p].key = S.errs[w.p].key
                /\ S.errs[v.p].httpStatus = S.errs[w.p].httpStatus
                /\ SameVisible(S, S.errs[v.p].cause, S.errs[w.p].cause)

\* "<code> [<key>] (<httpStatus>)" for the Error at p.
Compact(p) == errs[p].code \o " [" \o errs[p].key \o "] (" \o Itoa(errs[p].httpStatus) \o ")"

\* C9: Error() is "<code> [<key>] (<httpStatus>)", followed by ": " and the
\* cause's own string when there is a cause, and "<nil>" on a nil receiver;
\* errors that differ in detail and context only, at any level, render alike.
C9_ErrorStringFormat ==
    /\ ret.op = "Error" =>
          ret.s = IF ret.recv = NilPtr THEN "<nil>"
                  ELSE IF errs[ret.recv].cause = NilErr THEN Compact(ret.recv)
                  ELSE Compact(ret.recv) \o ": " \o ValueString(S0, errs[ret.recv].cause)
    /\ \A p, q \in 1..Len(errs) :
          SameVisible(S0, ErrPtr(p), ErrPtr(q)) => ErrorString(S0, p) = ErrorString(S0, q)

\* Error() was just called on an Error with a cause, and another Error
\* differs from it in detail and context only.
C9_Witness ==
    /\ ret.op = "Error" /\ ret.recv # NilPtr
    /\ errs[ret.recv].cause # NilErr
    /\ \E q \in 1..Len(errs) :
          /\ SameVisible(S0, ErrPtr(ret.recv), ErrPtr(q))
          /\ errs[q].detail # errs[ret.recv].detail
          /\ ContextValue(maps, errs, q) # ContextValue(maps, errs, ret.recv)

\* The values met from v on by following Unwrap until it gives nil (a nil
\* *Error ends the chain).
RECURSIVE Chain(_, _)
Chain(S, v) ==
    IF v = NilErr THEN <<>>
    ELSE IF v.t = "foreign" THEN <<v>> \o Chain(S, S.frgn[v.p].wraps)
    ELSE IF v.p = NilPtr THEN <<v>>
    ELSE <<v>> \o Chain(S, Unwrap(S, v.p).e)

\* C10: after e = Wrap(cause, ...), following Unwrap from e meets cause and
\* then everything that was met from cause before; e's status, code and key
\* are those given to this Wrap; and no Error or foreign error that existed
\* before has changed.
C10_ChainsTraversable ==
    [][\A c \in {ret'.e} \ {NilErr}, f \in Fields, ctx \in CallerMaps :
          ret'.op = "Wrap" /\ DoWrap(c, f, ctx) =>
             LET p == Len(errs')
             IN /\ Chain(S1, ErrPtr(p)) = <<ErrPtr(p)>> \o Chain(S0, c)
                /\ HTTPStatus(S1, p).n = f.httpStatus
                /\ Code(S1, p).s = f.code
                /\ Key(S1, p).s = f.key
                /\ \A q \in 1..Len(errs) :
                      /\ errs'[q] = errs[q]
                      /\ ContextValue(maps', errs', q) = ContextValue(maps, errs, q)
                /\ \A g \in 1..Len(frgn) : frgn'[g] = frgn[g]]_vars

\* Wrap was just called on an Error that itself wraps a foreign error, with
\* other attributes than the inner Error's.
C10_Witness ==
    /\ ret.op = "Wrap" /\ ret.e.t = "Error" /\ ret.e.p # NilPtr
    /\ errs[ret.e.p].cause.t = "foreign"
    /\ errs[ret.n].code # errs[ret.e.p].code
    /\ Len(Chain(S0, ErrPtr(ret.n))) >= 3

\* The structure of a context C overridden at its top level by the entries
\* M of a non-empty map: the keys of M (ks) take M's entries, the others
\* keep C's.
Overridden(C, M, ks) ==
    {<<<<>>, "map", 0>>}
       \cup {t \in C : Len(t[1]) >= 1 /\ t[1][1] \notin ks}
       \cup {t \in M : Len(t[1]) >= 1 /\ t[1][1] \in ks}

\* The entry k |-> v as a structure, as given and with every empty map
\* replaced by the nil map.
EntryStruct(h, k, v) ==
    IF v.k = "map" THEN Struct(h, v.v, <<k>>) ELSE {<<<<k>>, "int", v.v>>}

EntryNormalized(h, k, v) ==
    IF v.k = "map" THEN Normalized(h, v.v, <<k>>) ELSE {<<<<k>>, "int", v.v>>}

\* What a WithContextKV or WithContextMap step on the Error at p leaves
\* alone: the receiver is returned, its other fields, every other Error,
\* every foreign error and every map but p's own context map are as before.
EnrichFrame(p) ==
    /\ ret'.n = p /\ ~ret'.panic
    /\ Len(errs') = Len(errs) /\ frgn' = frgn
    /\ \A q \in 1..Len(errs) :
          IF q = p
          THEN [errs'[q] EXCEPT !.context = NilMap] = [errs[q] EXCEPT !.context = NilMap]
          ELSE errs'[q] = errs[q]
    /\ \A a \in 1..Len(maps) : a # errs[p].context => maps'[a] = maps[a]
    /\ \A q \in 1..Len(errs) :
          q # p => ContextValue(maps', errs', q) = ContextValue(maps, errs, q)

\* A WithContextKV or WithContextMap step on the nil *Error returns nil and
\* changes nothing.
EnrichNil ==
    ret'.n = NilPtr /\ ~ret'.panic /\ S1 = S0

\* C11 as claimed: e.WithContextMap(m) makes e.Context() equal to the
\* former Context() overridden by m (unchanged for a nil or empty m),
\* e.WithContextKV(k, v) makes it the former Context() with k set to v; each
\* returns e and changes nothing else; on the nil *Error each returns nil
\* and changes nothing.
C11_EnrichMerges ==
    [][/\ \A p \in {ret'.recv}, m \in CallerMaps :
             ret'.op = "WithContextMap" /\ DoWithContextMap(p, m) =>
                IF p = NilPtr THEN EnrichNil
                ELSE /\ EnrichFrame(p)
                     /\ ContextValue(maps', errs', p) =
                           IF m = NilMap \/ DOMAIN maps[m] = {}
                           THEN ContextValue(maps, errs, p)
                           ELSE Overridden(ContextValue(maps, errs, p),
                                           Struct(maps, m, <<>>), DOMAIN maps[m])
       /\ \A p \in {ret'.recv}, k \in {ret'.s}, v \in CallerVals :
             ret'.op = "WithContextKV" /\ DoWithContextKV(p, k, v) =>
                IF p = NilPtr THEN EnrichNil
                ELSE /\ EnrichFrame(p)
                     /\ ContextValue(maps', errs', p) =
                           Overridden(ContextValue(maps, errs, p),
                                      EntryStruct(maps, k, v), {k})]_vars

\* C11 as amended: the same, with every empty map among the values written
\* read back as the nil map.
C11_EnrichMergesNormalized ==
    [][/\ \A p \in {ret'.recv}, m \in CallerMaps :
             ret'.op = "WithContextMap" /\ DoWithContextMap(p, m) =>
                IF p = NilPtr THEN EnrichNil
                ELSE /\ EnrichFrame(p)
                     /\ ContextValue(maps', errs', p) =
                           IF m = NilMap \/ DOMAIN maps[m] = {}
                           THEN ContextValue(maps, errs, p)
                           ELSE Overridden(ContextValue(maps, errs, p),
                                           Normalized(maps, m, <<>>), DOMAIN maps[m])
       /\ \A p \in {ret'.recv}, k \in {ret'.s}, v \in CallerVals :
             ret'.op = "WithContextKV" /\ DoWithContextKV(p, k, v) =>
                IF p = NilPtr THEN EnrichNil
                ELSE /\ EnrichFrame(p)
                     /\ ContextValue(maps', errs', p) =
                           Overridden(ContextValue(maps, errs, p),
                                      EntryNormalized(maps, k, v), {k})]_vars

\* WithContextMap was just called with the third literal on an Error built
\* from the first, whose context had "a" and a map at "b": the Error's
\* context now has the literal's "a" and "b", and another Error exists.
C11_Witness ==
    /\ ret.op = "WithContextMap" /\ ret.recv # NilPtr
    /\ <<ret.recv, 1>> \in given /\ <<ret.recv, 3>> \in written
    /\ "a" \in DOMAIN maps[1] /\ "b" \in DOMAIN maps[1]
    /\ maps[errs[ret.recv].context] = maps[3]
    /\ Len(errs) = 2

\* The index of the last option of kind o in the list os, 0 if there is none.
LastOf(os, o) ==
    LET I == {i \in 1..Len(os) : os[i].o = o}
    IN IF I = {} THEN 0 ELSE CHOOSE i \in I : \A j \in I : j <= i

\* In E's result at p, built from the list os: code and key are E's
\* arguments, status, detail and cause are the last targeting option's value
\* or the default, and nothing that existed before the call has changed.
OptsFold(p, os) ==
    /\ Code(S1, p).s = F1.code /\ Key(S1, p).s = F1.key
    /\ HTTPStatus(S1, p).n =
          IF LastOf(os, "WithHTTPStatus") = 0 THEN 500
          ELSE os[LastOf(os, "WithHTTPStatus")].n
    /\ Detail(S1, p).s =
          IF LastOf(os, "WithDetail") = 0 THEN "error"
          ELSE os[LastOf(os, "WithDetail")].s
    /\ Unwrap(S1, p).e =
          IF LastOf(os, "WithCause") = 0 THEN NilErr
          ELSE os[LastOf(os, "WithCause")].c
    /\ LastOf(os, "WithContext") = 0 => errs'[p].context = NilMap
    /\ frgn' = frgn
    /\ \A a \in 1..Len(maps) : maps'[a] = maps[a]

\* Each option the caller can make, run on the Error at p, changes no field
\* of it but its own, no other Error, no foreign error and no map.
OptsOneField(p) ==
    \A o \in Options :
       LET T == ApplyOption(S1, p, o)
           fld == CASE o.o = "WithHTTPStatus" -> "httpStatus"
                    [] o.o = "WithDetail" -> "detail"
                    [] o.o = "WithContext" -> "context"
                    [] o.o = "WithCause" -> "cause"
       IN /\ \A g \in DOMAIN errs'[p] \ {fld} : T.errs[p][g] = errs'[p][g]
          /\ \A q \in 1..Len(errs') : q # p => T.errs[q] = errs'[q]
          /\ T.frgn = frgn'
          /\ \A a \in 1..Len(maps') : T.maps[a] = maps'[a]

\* C12 as claimed: E(code, key, options...) has the code and key given, and
\* each of status, detail, context and cause is the value of the last option
\* that targets it, or its default (500, "error", no context, no cause);
\* each option changes exactly one attribute.
C12_OptionsFold ==
    [][\A os \in {eopts'} :
          ret'.op = "E" /\ DoE(F1, os) =>
             LET p == ret'.n
             IN /\ OptsFold(p, os)
                /\ OptsOneField(p)
                /\ LastOf(os, "WithContext") # 0 =>
                      ContextValue(maps', errs', p) =
                         Struct(maps, os[LastOf(os, "WithContext")].m, <<>>)]_vars

\* C12 as amended: the same, the context being the last WithContext
\* option's map with every empty map in it (the map itself included) read
\* back as the nil map.
C12_OptionsFoldNormalized ==
    [][\A os \in {eopts'} :
          ret'.op = "E" /\ DoE(F1, os) =>
             LET p == ret'.n
             IN /\ OptsFold(p, os)
                /\ OptsOneField(p)
                /\ LastOf(os, "WithContext") # 0 =>
                      ContextValue(maps', errs', p) =
                         Normalized(maps, os[LastOf(os, "WithContext")].m, <<>>)]_vars

\* E was just called with a full list of options that ends with two
\* WithHTTPStatus options of different values, and the result has the last
\* one's status and the default detail and cause.
C12_Witness ==
    /\ ret.op = "E" /\ Len(eopts) = MaxOpts
    /\ eopts[MaxOpts - 1].o = "WithHTTPStatus" /\ eopts[MaxOpts].o = "WithHTTPStatus"
    /\ eopts[MaxOpts - 1].n # eopts[MaxOpts].n
    /\ errs[ret.n].httpStatus = eopts[MaxOpts].n
    /\ errs[ret.n].cause = NilErr /\ errs[ret.n].detail = "error"

\* A step of a call that only reads the Error: Context(), Code(), Detail().
ReaderStep ==
    \E t \in Threads :
       \/ Len(errs) = 1 /\ CtxLoad(t, 1)
       \/ CtxClone(t)
       \/ \E op \in {"Code", "Detail"} : Len(errs) = 1 /\ GetField(t, 1, op)

\* C13: while the threads that share an Error have called nothing but
\* Context() and getters on it, no two of their accesses race and every
\* Context() has returned the Error's one context value; a step of such a
\* call changes no Error and no map that exists; and in every race that
\* does happen the write is WithContextKV's or WithContextMap's, to the
\* Error's context field or to a map.
C13_SharedAccess ==
    /\ [](writes = 0 =>
            /\ race = {}
            /\ \A t \in Threads :
                  thr[t].res.op = "Context" =>
                     Struct(maps, thr[t].res.n, <<>>) = ContextValue(maps, errs, 1))
    /\ [](\A r \in race :
            /\ r.w \in {"WithContextKV", "WithContextMap"}
            /\ r.loc[1] \in {"context", "map"})
    /\ [][ReaderStep =>
            /\ errs' = errs /\ frgn' = frgn
            /\ \A a \in 1..Len(maps) : maps'[a] = maps[a]]_vars

\* A WithContextKV call and a Context() call on the shared Error have
\* overlapped, and the write of the one to the Error's context map races
\* with the read of the other.
C13_Witness ==
    \E r \in race :
       /\ r.w = "WithContextKV" /\ r.o = "Context"
       /\ r.loc = <<"map", errs[1].context>>

====
